---- MODULE Spec2Model ----
(***************************************************************************)
(* CachedRpcProvider (raiko-host/src/host/provider/cached_rpc_provider.rs): *)
(* a provider that answers every query from a FileProvider cache when the  *)
(* cache holds the key and from an RpcProvider otherwise, inserting what   *)
(* the remote returned.  The FileProvider and the RpcProvider are the two  *)
(* collaborators; the provider's own code is the composition.              *)
(***************************************************************************)
EXTENDS Integers, Sequences, FiniteSets, TLC

VARIABLES
    provider,    \* "none" before construction, "up" once new() returned Ok, "failed" after new() returned Err
    cache,       \* self.cache: the FileProvider's in-memory maps, one per query kind
    disk,        \* the file at cache_path: missing, corrupt, or a saved cache
    remote,      \* the network behind self.rpc: unconstrained, or a fixed answer per query
    ret,         \* the last operation: its name, its argument, its Result, and whether it repeats the call before it
    pre,         \* the store and the file as they were when the last operation began (new() begins with no store)
    rpc_calls,   \* the calls the last operation made on self.rpc, in order, with their answers
    fetched,     \* per key, the successful remote fetches of this process: count and first value
    nops         \* number of get and save calls so far

vars == <<provider, cache, disk, remote, ret, pre, rpc_calls, fetched, nops>>

----------------------------------------------------------------------------
(* Bounds of the model *)

MaxOps == 3      \* get and save calls in one behaviour

----------------------------------------------------------------------------
(* Result<T>: Ok(v) and Err(e) *)

Ok(v) == [ok |-> TRUE, val |-> v]
Err(e) == [ok |-> FALSE, err |-> e]

(* Option<u64> of TxQuery.block_no *)
None == <<>>
Some(n) == <<n>>

----------------------------------------------------------------------------
(* Query and value universes *)

Kinds == {"full_block", "partial_block", "block_receipts", "proof",
          "transaction_count", "balance", "code", "storage", "logs",
          "transaction", "blob"}

GeneralKinds == Kinds \ {"transaction"}

BlockNos == {50, 100}
TxHashes == {"0xAA", "0xBB"}
Payloads == {1, 2}

BlockQueries == [block_no : BlockNos]
ProofQueries == {"pq"}
AccountQueries == {"acct"}
StorageQueries == {"slot"}
LogsQueries == {"lq"}
BlobIds == {7}
TxQueries == [tx_hash : TxHashes, block_no : {None} \cup {Some(n) : n \in BlockNos}]

Queries(kind) ==
    CASE kind \in {"full_block", "partial_block", "block_receipts"} -> BlockQueries
      [] kind = "proof" -> ProofQueries
      [] kind \in {"transaction_count", "balance", "code"} -> AccountQueries
      [] kind = "storage" -> StorageQueries
      [] kind = "logs" -> LogsQueries
      [] kind = "transaction" -> TxQueries
      [] kind = "blob" -> BlobIds

Transactions == [hash : TxHashes, payload : Payloads]

Tx(hash, payload) == [hash |-> hash, payload |-> payload]

\* the transaction lists the remote may put in a block: none, the one transaction
\* 0xAA, and two transactions with 0xAA second
TxLists == {<<>>, <<Tx("0xAA", 1)>>, <<Tx("0xBB", 1), Tx("0xAA", 2)>>}

FullBlocks(block_no) == {[number |-> block_no, transactions |-> txs] : txs \in TxLists}

PlainValues == {"v1", "v2"}

Values(kind, query) ==
    CASE kind = "full_block" -> FullBlocks(query.block_no)
      [] kind = "transaction" -> {tx \in Transactions : tx.hash = query.tx_hash}
      [] OTHER -> PlainValues

\* the remote's failure: one opaque error value
RemoteErrors == {"timeout"}

----------------------------------------------------------------------------
(* FileProvider: the cache store *)

EmptyCache == [k \in Kinds |-> <<>>]

FileProvider_empty == EmptyCache

FileProvider_from_file(file) ==
    IF file.state = "saved" THEN Ok(file.content) ELSE Err("cannot load cache")

Has(c, kind, query) == query \in DOMAIN c[kind]

\* a stored value the store cannot read back (a corrupted entry of the file)
Unreadable(kind) ==
    IF kind \in {"full_block", "transaction"} THEN [unreadable |-> TRUE] ELSE "unreadable"

\* a lookup fails for an absent key and for a stored value that cannot be read
cache_get(c, kind, query) ==
    IF query \notin DOMAIN c[kind] THEN Err("No data")
    ELSE IF c[kind][query] = Unreadable(kind) THEN Err("unreadable")
    ELSE Ok(c[kind][query])

cache_insert(c, kind, query, val) ==
    [c EXCEPT ![kind] = (query :> val) @@ c[kind]]

\* save() writes the whole store to the file, or fails and leaves the file alone
FileProvider_save(c, file) ==
    {[out |-> Ok("unit"), file |-> [state |-> "saved", content |-> c]],
     [out |-> Err("cannot write cache"), file |-> file]}

----------------------------------------------------------------------------
(* RpcProvider: the remote data source *)

RpcProvider_new(rpc_url, beacon_rpc_url) ==
    IF rpc_url = "malformed" \/ beacon_rpc_url = Some("malformed")
    THEN Err("bad url") ELSE Ok("rpc")

Outcomes(kind, query) ==
    {Ok(v) : v \in Values(kind, query)} \cup {Err(e) : e \in RemoteErrors}

rpc_get(kind, query) ==
    IF remote.fixed THEN {remote.answer[kind][query]} ELSE Outcomes(kind, query)

----------------------------------------------------------------------------
(* Bookkeeping of one call *)

Call(kind, query, out) == [kind |-> kind, query |-> query, out |-> out]

NoFetches == [k \in Kinds |-> <<>>]

\* the successful remote fetches of this process, after one more call
Note(f, call) ==
    IF ~call.out.ok THEN f
    ELSE LET old == f[call.kind]
             q == call.query
             entry == IF q \in DOMAIN old
                      THEN [n |-> old[q].n + 1, first |-> old[q].first]
                      ELSE [n |-> 1, first |-> call.out.val]
         IN [f EXCEPT ![call.kind] = (q :> entry) @@ old]

RECURSIVE NoteAll(_, _)
NoteAll(f, calls) ==
    IF calls = <<>> THEN f ELSE NoteAll(Note(f, Head(calls)), Tail(calls))

\* the record of a finished call; prev is the Result of the call before it when
\* that was the same call, and NoPrev otherwise
NoPrev == [ok |-> FALSE, err |-> "not a repeat"]

Done(op, query, out) ==
    [op |-> op, query |-> query, out |-> out,
     prev |-> IF ret.op = op /\ ret.query = query THEN ret.out ELSE NoPrev]

\* a get returns `out`, leaving the store as `c`, having made `calls` on the remote
Return(op, query, out, c, calls) ==
    /\ ret' = Done(op, query, out)
    /\ pre' = [cache |-> cache, disk |-> disk]
    /\ cache' = c
    /\ rpc_calls' = calls
    /\ fetched' = NoteAll(fetched, calls)
    /\ nops' = nops + 1
    /\ UNCHANGED <<provider, disk, remote>>

Callable == provider = "up" /\ nops < MaxOps

----------------------------------------------------------------------------
(* CachedRpcProvider *)

\* new() discarding what from_file loaded: the store always starts empty
new_ignores_file(rpc_url, beacon_rpc_url) ==
    LET rpc == RpcProvider_new(rpc_url, beacon_rpc_url)
    IN /\ IF rpc.ok
          THEN /\ provider' = "up"
               /\ ret' = Done("new", <<rpc_url, beacon_rpc_url>>, Ok("provider"))
          ELSE /\ provider' = "failed"
               /\ ret' = Done("new", <<rpc_url, beacon_rpc_url>>, rpc)
       /\ cache' = FileProvider_empty
       /\ pre' = [cache |-> EmptyCache, disk |-> disk]
       /\ rpc_calls' = <<>>
       /\ fetched' = NoFetches
       /\ UNCHANGED <<disk, remote, nops>>

\* new() with `FileProvider::from_file(&cache_path)?` in place of the match of
\* lines 38-41: a file that does not load fails the construction
new_requires_file(rpc_url, beacon_rpc_url) ==
    LET loaded == FileProvider_from_file(disk)
        rpc == RpcProvider_new(rpc_url, beacon_rpc_url)
        out == IF ~loaded.ok THEN loaded ELSE IF ~rpc.ok THEN rpc ELSE Ok("provider")
    IN /\ provider' = IF out.ok THEN "up" ELSE "failed"
       /\ cache' = IF out.ok THEN loaded.val ELSE EmptyCache
       /\ ret' = Done("new", <<rpc_url, beacon_rpc_url>>, out)
       /\ pre' = [cache |-> EmptyCache, disk |-> disk]
       /\ rpc_calls' = <<>>
       /\ fetched' = NoFetches
       /\ UNCHANGED <<disk, remote, nops>>

new(rpc_url, beacon_rpc_url) ==
    LET loaded == FileProvider_from_file(disk)
        store == IF loaded.ok THEN loaded.val ELSE FileProvider_empty
        rpc == RpcProvider_new(rpc_url, beacon_rpc_url)
    IN /\ IF rpc.ok
          THEN /\ provider' = "up"
               /\ cache' = store
               /\ ret' = Done("new", <<rpc_url, beacon_rpc_url>>, Ok("provider"))
          ELSE /\ provider' = "failed"
               /\ cache' = EmptyCache
               /\ ret' = Done("new", <<rpc_url, beacon_rpc_url>>, rpc)
       /\ pre' = [cache |-> EmptyCache, disk |-> disk]
       /\ rpc_calls' = <<>>
       /\ fetched' = NoFetches
       /\ UNCHANGED <<disk, remote, nops>>

save ==
    /\ Callable
    /\ \E written \in FileProvider_save(cache, disk) :
         /\ disk' = written.file
         /\ ret' = Done("save", None, written.out)
    /\ pre' = [cache |-> cache, disk |-> disk]
    /\ rpc_calls' = <<>>
    /\ nops' = nops + 1
    /\ UNCHANGED <<provider, cache, remote, fetched>>

\* get_full_block without line 60: the fetched block is returned but not inserted
get_full_block_no_insert(query) ==
    /\ Callable
    /\ LET cache_out == cache_get(cache, "full_block", query)
       IN IF cache_out.ok
          THEN Return("get_full_block", query, cache_out, cache, <<>>)
          ELSE \E out \in rpc_get("full_block", query) :
                 IF out.ok
                 THEN Return("get_full_block", query, out, cache,
                             <<Call("full_block", query, out)>>)
                 ELSE Return("get_full_block", query, out, cache,
                             <<Call("full_block", query, out)>>)

\* get_full_block flushing the store to the file after the insert of line 60
get_full_block_autosave(query) ==
    /\ Callable
    /\ LET cache_out == cache_get(cache, "full_block", query)
       IN IF cache_out.ok
          THEN Return("get_full_block", query, cache_out, cache, <<>>)
          ELSE \E out \in rpc_get("full_block", query) :
                 IF out.ok
                 THEN /\ ret' = Done("get_full_block", query, out)
                      /\ pre' = [cache |-> cache, disk |-> disk]
                      /\ cache' = cache_insert(cache, "full_block", query, out.val)
                      /\ disk' = [state |-> "saved", content |-> cache']
                      /\ rpc_calls' = <<Call("full_block", query, out)>>
                      /\ fetched' = Note(fetched, Call("full_block", query, out))
                      /\ nops' = nops + 1
                      /\ UNCHANGED <<provider, remote>>
                 ELSE Return("get_full_block", query, out, cache,
                             <<Call("full_block", query, out)>>)

get_full_block(query) ==
    /\ Callable
    /\ LET cache_out == cache_get(cache, "full_block", query)
       IN IF cache_out.ok
          THEN Return("get_full_block", query, cache_out, cache, <<>>)
          ELSE \E out \in rpc_get("full_block", query) :
                 IF out.ok
                 THEN Return("get_full_block", query, out,
                             cache_insert(cache, "full_block", query, out.val),
                             <<Call("full_block", query, out)>>)
                 ELSE Return("get_full_block", query, out, cache,
                             <<Call("full_block", query, out)>>)

\* get_partial_block also populating the full-block cache with the block it fetched
get_partial_block_fills_full(query) ==
    /\ Callable
    /\ LET cache_out == cache_get(cache, "partial_block", query)
       IN IF cache_out.ok
          THEN Return("get_partial_block", query, cache_out, cache, <<>>)
          ELSE \E out \in rpc_get("partial_block", query) :
                 IF out.ok
                 THEN Return("get_partial_block", query, out,
                             cache_insert(cache_insert(cache, "partial_block", query, out.val),
                                          "full_block", query,
                                          [number |-> query.block_no, transactions |-> <<>>]),
                             <<Call("partial_block", query, out)>>)
                 ELSE Return("get_partial_block", query, out, cache,
                             <<Call("partial_block", query, out)>>)

get_partial_block(query) ==
    /\ Callable
    /\ LET cache_out == cache_get(cache, "partial_block", query)
       IN IF cache_out.ok
          THEN Return("get_partial_block", query, cache_out, cache, <<>>)
          ELSE \E out \in rpc_get("partial_block", query) :
                 IF out.ok
                 THEN Return("get_partial_block", query, out,
                             cache_insert(cache, "partial_block", query, out.val),
                             <<Call("partial_block", query, out)>>)
                 ELSE Return("get_partial_block", query, out, cache,
                             <<Call("partial_block", query, out)>>)

get_block_receipts(query) ==
    /\ Callable
    /\ LET cache_out == cache_get(cache, "block_receipts", query)
       IN IF cache_out.ok
          THEN Return("get_block_receipts", query, cache_out, cache, <<>>)
          ELSE \E out \in rpc_get("block_receipts", query) :
                 IF out.ok
                 THEN Return("get_block_receipts", query, out,
                             cache_insert(cache, "block_receipts", query, out.val),
                             <<Call("block_receipts", query, out)>>)
                 ELSE Return("get_block_receipts", query, out, cache,
                             <<Call("block_receipts", query, out)>>)

\* get_proof inserting before line 95 looks at the Result: a failure stores a default proof
get_proof_caches_failure(query) ==
    /\ Callable
    /\ LET cache_out == cache_get(cache, "proof", query)
       IN IF cache_out.ok
          THEN Return("get_proof", query, cache_out, cache, <<>>)
          ELSE \E out \in rpc_get("proof", query) :
                 IF out.ok
                 THEN Return("get_proof", query, out,
                             cache_insert(cache, "proof", query, out.val),
                             <<Call("proof", query, out)>>)
                 ELSE Return("get_proof", query, out,
                             cache_insert(cache, "proof", query, "v1"),
                             <<Call("proof", query, out)>>)

get_proof(query) ==
    /\ Callable
    /\ LET cache_out == cache_get(cache, "proof", query)
       IN IF cache_out.ok
          THEN Return("get_proof", query, cache_out, cache, <<>>)
          ELSE \E out \in rpc_get("proof", query) :
                 IF out.ok
                 THEN Return("get_proof", query, out,
                             cache_insert(cache, "proof", query, out.val),
                             <<Call("proof", query, out)>>)
                 ELSE Return("get_proof", query, out, cache,
                             <<Call("proof", query, out)>>)

get_transaction_count(query) ==
    /\ Callable
    /\ LET cache_out == cache_get(cache, "transaction_count", query)
       IN IF cache_out.ok
          THEN Return("get_transaction_count", query, cache_out, cache, <<>>)
          ELSE \E out \in rpc_get("transaction_count", query) :
                 IF out.ok
                 THEN Return("get_transaction_count", query, out,
                             cache_insert(cache, "transaction_count", query, out.val),
                             <<Call("transaction_count", query, out)>>)
                 ELSE Return("get_transaction_count", query, out, cache,
                             <<Call("transaction_count", query, out)>>)

\* get_balance reading and filling the transaction-count map (lines 102 and 108 pasted)
get_balance_from_count(query) ==
    /\ Callable
    /\ LET cache_out == cache_get(cache, "transaction_count", query)
       IN IF cache_out.ok
          THEN Return("get_balance", query, cache_out, cache, <<>>)
          ELSE \E out \in rpc_get("balance", query) :
                 IF out.ok
                 THEN Return("get_balance", query, out,
                             cache_insert(cache, "transaction_count", query, out.val),
                             <<Call("balance", query, out)>>)
                 ELSE Return("get_balance", query, out, cache,
                             <<Call("balance", query, out)>>)

get_balance(query) ==
    /\ Callable
    /\ LET cache_out == cache_get(cache, "balance", query)
       IN IF cache_out.ok
          THEN Return("get_balance", query, cache_out, cache, <<>>)
          ELSE \E out \in rpc_get("balance", query) :
                 IF out.ok
                 THEN Return("get_balance", query, out,
                             cache_insert(cache, "balance", query, out.val),
                             <<Call("balance", query, out)>>)
                 ELSE Return("get_balance", query, out, cache,
                             <<Call("balance", query, out)>>)

get_code(query) ==
    /\ Callable
    /\ LET cache_out == cache_get(cache, "code", query)
       IN IF cache_out.ok
          THEN Return("get_code", query, cache_out, cache, <<>>)
          ELSE \E out \in rpc_get("code", query) :
                 IF out.ok
                 THEN Return("get_code", query, out,
                             cache_insert(cache, "code", query, out.val),
                             <<Call("code", query, out)>>)
                 ELSE Return("get_code", query, out, cache,
                             <<Call("code", query, out)>>)

\* get_storage without the early return of lines 139-141: it always fetches and inserts
get_storage_refetch(query) ==
    /\ Callable
    /\ \E out \in rpc_get("storage", query) :
         IF out.ok
         THEN Return("get_storage", query, out,
                     cache_insert(cache, "storage", query, out.val),
                     <<Call("storage", query, out)>>)
         ELSE Return("get_storage", query, out, cache,
                     <<Call("storage", query, out)>>)

get_storage(query) ==
    /\ Callable
    /\ LET cache_out == cache_get(cache, "storage", query)
       IN IF cache_out.ok
          THEN Return("get_storage", query, cache_out, cache, <<>>)
          ELSE \E out \in rpc_get("storage", query) :
                 IF out.ok
                 THEN Return("get_storage", query, out,
                             cache_insert(cache, "storage", query, out.val),
                             <<Call("storage", query, out)>>)
                 ELSE Return("get_storage", query, out, cache,
                             <<Call("storage", query, out)>>)

\* get_logs returning a cache-side error other than an absent key to the caller
get_logs_surfaces_error(query) ==
    /\ Callable
    /\ LET cache_out == cache_get(cache, "logs", query)
       IN IF cache_out.ok \/ cache_out.err # "No data"
          THEN Return("get_logs", query, cache_out, cache, <<>>)
          ELSE \E out \in rpc_get("logs", query) :
                 IF out.ok
                 THEN Return("get_logs", query, out,
                             cache_insert(cache, "logs", query, out.val),
                             <<Call("logs", query, out)>>)
                 ELSE Return("get_logs", query, out, cache,
                             <<Call("logs", query, out)>>)

get_logs(query) ==
    /\ Callable
    /\ LET cache_out == cache_get(cache, "logs", query)
       IN IF cache_out.ok
          THEN Return("get_logs", query, cache_out, cache, <<>>)
          ELSE \E out \in rpc_get("logs", query) :
                 IF out.ok
                 THEN Return("get_logs", query, out,
                             cache_insert(cache, "logs", query, out.val),
                             <<Call("logs", query, out)>>)
                 ELSE Return("get_logs", query, out, cache,
                             <<Call("logs", query, out)>>)

\* the loop over block.transactions: the first transaction with the hash, if any
ScanBlock(block, tx_hash) ==
    LET hits == {i \in 1..Len(block.transactions) : block.transactions[i].hash = tx_hash}
    IN IF hits = {} THEN Err("not in block")
       ELSE Ok(block.transactions[CHOOSE i \in hits : \A j \in hits : i <= j])

\* lines 167-176: the target transaction in the cached block of query.block_no
SearchCachedBlock(c, query) ==
    IF query.block_no = None THEN Err("no block_no")
    ELSE LET block == cache_get(c, "full_block", [block_no |-> query.block_no[1]])
         IN IF block.ok THEN ScanBlock(block.val, query.tx_hash) ELSE Err("block not cached")

\* get_transaction without lines 167-176: no search of the cached block
get_transaction_no_scan(query) ==
    /\ Callable
    /\ LET cache_out == cache_get(cache, "transaction", query)
           found == Err("not searched")
       IN IF cache_out.ok
          THEN Return("get_transaction", query, cache_out, cache, <<>>)
          ELSE IF found.ok
          THEN Return("get_transaction", query, found, cache, <<>>)
          ELSE \E out \in rpc_get("transaction", query) :
                 IF out.ok
                 THEN Return("get_transaction", query, out,
                             cache_insert(cache, "transaction", query, out.val),
                             <<Call("transaction", query, out)>>)
                 ELSE Return("get_transaction", query, out, cache,
                             <<Call("transaction", query, out)>>)

\* get_transaction without line 179: the fetched transaction is not inserted
get_transaction_no_insert(query) ==
    /\ Callable
    /\ LET cache_out == cache_get(cache, "transaction", query)
           found == SearchCachedBlock(cache, query)
       IN IF cache_out.ok
          THEN Return("get_transaction", query, cache_out, cache, <<>>)
          ELSE IF found.ok
          THEN Return("get_transaction", query, found, cache, <<>>)
          ELSE \E out \in rpc_get("transaction", query) :
                 IF out.ok
                 THEN Return("get_transaction", query, out,
                             cache,
                             <<Call("transaction", query, out)>>)
                 ELSE Return("get_transaction", query, out, cache,
                             <<Call("transaction", query, out)>>)

\* get_transaction calling self.get_full_block at line 169 instead of
\* self.cache.get_full_block: a block that is not cached is fetched and inserted
get_transaction_fetches_block(query) ==
    /\ Callable
    /\ LET cache_out == cache_get(cache, "transaction", query)
           bq == [block_no |-> query.block_no[1]]
           blocks == IF query.block_no = None THEN {Err("no block_no")}
                     ELSE IF Has(cache, "full_block", bq) THEN {cache_get(cache, "full_block", bq)}
                     ELSE rpc_get("full_block", bq)
       IN IF cache_out.ok
          THEN Return("get_transaction", query, cache_out, cache, <<>>)
          ELSE \E block \in blocks :
                 LET fetch == IF query.block_no # None /\ ~Has(cache, "full_block", bq)
                              THEN <<Call("full_block", bq, block)>> ELSE <<>>
                     c1 == IF fetch # <<>> /\ block.ok
                           THEN cache_insert(cache, "full_block", bq, block.val) ELSE cache
                     found == IF block.ok THEN ScanBlock(block.val, query.tx_hash)
                              ELSE Err("no block")
                 IN IF found.ok
                    THEN Return("get_transaction", query, found, c1, fetch)
                    ELSE \E out \in rpc_get("transaction", query) :
                           IF out.ok
                           THEN Return("get_transaction", query, out,
                                       cache_insert(c1, "transaction", query, out.val),
                                       Append(fetch, Call("transaction", query, out)))
                           ELSE Return("get_transaction", query, out, c1,
                                       Append(fetch, Call("transaction", query, out)))

\* get_transaction inserting the transaction found in the cached block under
\* the transaction key before returning it at line 172
get_transaction_caches_scan(query) ==
    /\ Callable
    /\ LET cache_out == cache_get(cache, "transaction", query)
           found == SearchCachedBlock(cache, query)
       IN IF cache_out.ok
          THEN Return("get_transaction", query, cache_out, cache, <<>>)
          ELSE IF found.ok
          THEN Return("get_transaction", query, found,
                      cache_insert(cache, "transaction", query, found.val), <<>>)
          ELSE \E out \in rpc_get("transaction", query) :
                 IF out.ok
                 THEN Return("get_transaction", query, out,
                             cache_insert(cache, "transaction", query, out.val),
                             <<Call("transaction", query, out)>>)
                 ELSE Return("get_transaction", query, out, cache,
                             <<Call("transaction", query, out)>>)

\* get_transaction with a transaction cache keyed by the hash alone at line 162
get_transaction_by_hash(query) ==
    /\ Callable
    /\ LET same == {q \in DOMAIN cache["transaction"] : q.tx_hash = query.tx_hash}
           cache_out == IF same = {} THEN Err("No data")
                        ELSE Ok(cache["transaction"][CHOOSE q \in same : TRUE])
           found == SearchCachedBlock(cache, query)
       IN IF cache_out.ok
          THEN Return("get_transaction", query, cache_out, cache, <<>>)
          ELSE IF found.ok
          THEN Return("get_transaction", query, found, cache, <<>>)
          ELSE \E out \in rpc_get("transaction", query) :
                 IF out.ok
                 THEN Return("get_transaction", query, out,
                             cache_insert(cache, "transaction", query, out.val),
                             <<Call("transaction", query, out)>>)
                 ELSE Return("get_transaction", query, out, cache,
                             <<Call("transaction", query, out)>>)

\* get_transaction with lines 167-176 moved before lines 162-165: the cached
\* block is searched before the transaction cache is looked up
get_transaction_scan_first(query) ==
    /\ Callable
    /\ LET cache_out == cache_get(cache, "transaction", query)
           found == SearchCachedBlock(cache, query)
       IN IF found.ok
          THEN Return("get_transaction", query, found, cache, <<>>)
          ELSE IF cache_out.ok
          THEN Return("get_transaction", query, cache_out, cache, <<>>)
          ELSE \E out \in rpc_get("transaction", query) :
                 IF out.ok
                 THEN Return("get_transaction", query, out,
                             cache_insert(cache, "transaction", query, out.val),
                             <<Call("transaction", query, out)>>)
                 ELSE Return("get_transaction", query, out, cache,
                             <<Call("transaction", query, out)>>)

get_transaction(query) ==
    /\ Callable
    /\ LET cache_out == cache_get(cache, "transaction", query)
           found == SearchCachedBlock(cache, query)
       IN IF cache_out.ok
          THEN Return("get_transaction", query, cache_out, cache, <<>>)
          ELSE IF found.ok
          THEN Return("get_transaction", query, found, cache, <<>>)
          ELSE \E out \in rpc_get("transaction", query) :
                 IF out.ok
                 THEN Return("get_transaction", query, out,
                             cache_insert(cache, "transaction", query, out.val),
                             <<Call("transaction", query, out)>>)
                 ELSE Return("get_transaction", query, out, cache,
                             <<Call("transaction", query, out)>>)

get_blob_data(block_id) ==
    /\ Callable
    /\ LET cache_out == cache_get(cache, "blob", block_id)
       IN IF cache_out.ok
          THEN Return("get_blob_data", block_id, cache_out, cache, <<>>)
          ELSE \E out \in rpc_get("blob", block_id) :
                 IF out.ok
                 THEN Return("get_blob_data", block_id, out,
                             cache_insert(cache, "blob", block_id, out.val),
                             <<Call("blob", block_id, out)>>)
                 ELSE Return("get_blob_data", block_id, out, cache,
                             <<Call("blob", block_id, out)>>)

----------------------------------------------------------------------------
(* The operations' names and the query kind each serves *)

OpKind ==
    [get_full_block |-> "full_block", get_partial_block |-> "partial_block",
     get_block_receipts |-> "block_receipts", get_proof |-> "proof",
     get_transaction_count |-> "transaction_count", get_balance |-> "balance",
     get_code |-> "code", get_storage |-> "storage", get_logs |-> "logs",
     get_transaction |-> "transaction", get_blob_data |-> "blob"]

GetOps == DOMAIN OpKind

----------------------------------------------------------------------------
(* Specification: the remote may answer anything, call by call *)

Missing == [state |-> "missing", content |-> EmptyCache]
Corrupt == [state |-> "corrupt", content |-> EmptyCache]

AnyRemote == [fixed |-> FALSE, answer |-> EmptyCache]

\* the block asked of get_partial_block and get_block_receipts
OneBlockQuery == {[block_no |-> 50]}

Urls == {"http://rpc", "malformed"}
BeaconUrls == {None, Some("http://beacon"), Some("malformed")}

Init ==
    /\ provider = "none"
    /\ cache = EmptyCache
    /\ disk \in {Missing, Corrupt}
    /\ remote = AnyRemote
    /\ ret = [op |-> "none", query |-> None, out |-> Ok("unit"), prev |-> NoPrev]
    /\ pre = [cache |-> cache, disk |-> disk]
    /\ rpc_calls = <<>>
    /\ fetched = NoFetches
    /\ nops = 0

Next ==
    \/ \E rpc_url \in Urls, beacon_rpc_url \in BeaconUrls : new(rpc_url, beacon_rpc_url)
    \/ save
    \/ \E query \in BlockQueries : get_full_block(query)
    \/ \E query \in OneBlockQuery : get_partial_block(query)
    \/ \E query \in OneBlockQuery : get_block_receipts(query)
    \/ \E query \in ProofQueries : get_proof(query)
    \/ \E query \in AccountQueries : get_transaction_count(query)
    \/ \E query \in AccountQueries : get_balance(query)
    \/ \E query \in AccountQueries : get_code(query)
    \/ \E query \in StorageQueries : get_storage(query)
    \/ \E query \in LogsQueries : get_logs(query)
    \/ \E query \in TxQueries : get_transaction(query)
    \/ \E block_id \in BlobIds : get_blob_data(block_id)

Spec == Init /\ [][Next]_vars

----------------------------------------------------------------------------
(* Specification: the remote answers by a fixed function of the query whose
   blocks agree with its transactions, and the file is missing or agrees with
   the remote *)

\* the remote's answers for the general kinds other than full_block
PlainAnswer(kind) ==
    IF kind = "proof" THEN Err("timeout")
    ELSE IF kind \in {"balance", "code", "logs", "block_receipts"} THEN Ok("v2")
    ELSE Ok("v1")

Block(block_no, txs) == [number |-> block_no, transactions |-> txs]

BlockAnswers ==
    {(50 :> Ok(Block(50, <<Tx("0xAA", 1)>>))) @@ (100 :> Err("not found upstream")),
     (50 :> Ok(Block(50, <<Tx("0xBB", 1), Tx("0xAA", 2)>>))) @@ (100 :> Ok(Block(100, <<>>))),
     (50 :> Err("timeout")) @@ (100 :> Ok(Block(100, <<Tx("0xAA", 1)>>)))}

TxAnswers ==
    [TxHashes -> {Ok(Tx("0xAA", 1)), Ok(Tx("0xAA", 2)), Ok(Tx("0xBB", 1)), Err("not found upstream")}]

Answers(blocks, txs) ==
    [k \in Kinds |-> [q \in Queries(k) |->
        CASE k = "full_block" -> blocks[q.block_no]
          [] k = "transaction" -> txs[q.tx_hash]
          [] OTHER -> PlainAnswer(k)]]

\* an answered transaction has the hash asked for, and every transaction of an
\* answered block is the remote's answer for its hash within that block
Consistent(answer) ==
    /\ \A q \in TxQueries :
         answer["transaction"][q].ok => answer["transaction"][q].val.hash = q.tx_hash
    /\ \A bq \in BlockQueries :
         answer["full_block"][bq].ok =>
            LET txs == answer["full_block"][bq].val.transactions
            IN \A i \in 1..Len(txs) :
                 answer["transaction"][[tx_hash |-> txs[i].hash,
                                        block_no |-> Some(bq.block_no)]] = Ok(txs[i])

FixedAnswers ==
    {a \in {Answers(blocks, txs) : blocks \in BlockAnswers, txs \in TxAnswers} : Consistent(a)}

\* the store holding the remote's successful answers of the kinds ks
Agreeing(answer, ks) ==
    [k \in Kinds |->
        IF k \in ks
        THEN [q \in {x \in Queries(k) : answer[k][x].ok} |-> answer[k][q].val]
        ELSE <<>>]

InitFixed ==
    /\ provider = "none"
    /\ cache = EmptyCache
    /\ \E a \in FixedAnswers :
         /\ remote = [fixed |-> TRUE, answer |-> a]
         /\ disk \in {Missing,
                      [state |-> "saved", content |-> Agreeing(a, {"full_block", "balance"})]}
    /\ ret = [op |-> "none", query |-> None, out |-> Ok("unit"), prev |-> NoPrev]
    /\ pre = [cache |-> cache, disk |-> disk]
    /\ rpc_calls = <<>>
    /\ fetched = NoFetches
    /\ nops = 0

SpecFixed == InitFixed /\ [][Next]_vars

----------------------------------------------------------------------------
(* Specification: the file was saved and holds entries the store cannot read
   back, next to readable ones; the remote may answer anything *)

FaultyStore ==
    [k \in Kinds |->
        CASE k = "logs" -> ("lq" :> Unreadable(k))
          [] k = "partial_block" -> ([block_no |-> 50] :> Unreadable(k))
          [] k = "blob" -> (7 :> Unreadable(k))
          [] k = "balance" -> ("acct" :> "v1")
          [] k = "full_block" ->
               ([block_no |-> 50] :> Unreadable(k))
               @@ ([block_no |-> 100] :> Block(100, <<Tx("0xAA", 1)>>))
          [] k = "transaction" ->
               ([tx_hash |-> "0xAA", block_no |-> Some(50)] :> Unreadable(k))
               @@ ([tx_hash |-> "0xAA", block_no |-> Some(100)] :> Unreadable(k))
          [] OTHER -> <<>>]

InitFaulty ==
    /\ provider = "none"
    /\ cache = EmptyCache
    /\ disk = [state |-> "saved", content |-> FaultyStore]
    /\ remote = AnyRemote
    /\ ret = [op |-> "none", query |-> None, out |-> Ok("unit"), prev |-> NoPrev]
    /\ pre = [cache |-> cache, disk |-> disk]
    /\ rpc_calls = <<>>
    /\ fetched = NoFetches
    /\ nops = 0

SpecFaulty == InitFaulty /\ [][Next]_vars

----------------------------------------------------------------------------
(* Vocabulary of the properties *)

IsGet == ret.op \in GetOps
Kind == OpKind[ret.op]
IsGeneralGet == IsGet /\ Kind \in GeneralKinds

\* the last operation found its key in the store / did not
WasHit == IsGet /\ Has(pre.cache, Kind, ret.query)
WasMiss == IsGet /\ ~Has(pre.cache, Kind, ret.query)

\* the last operation made exactly one remote call, for its own key, and
\* returned that call's answer
OneFetchReturned ==
    /\ Len(rpc_calls) = 1
    /\ rpc_calls[1].kind = Kind
    /\ rpc_calls[1].query = ret.query
    /\ ret.out = rpc_calls[1].out

HashesOf(txs) == {txs[i].hash : i \in 1..Len(txs)}

\* the full-block key a transaction query is scoped to
BlockOf(query) == [block_no |-> query.block_no[1]]

\* the last operation is get_transaction for a block number whose block was cached
TxInCachedBlock ==
    /\ ret.op = "get_transaction"
    /\ ret.query.block_no # None
    /\ Has(pre.cache, "full_block", BlockOf(ret.query))

CachedBlockTxs == pre.cache["full_block"][BlockOf(ret.query)].transactions

Failed(out) == ~out.ok /\ out # NoPrev

\* every entry of c is an entry of d, with the same value
Extends(d, c) == \A k \in Kinds : \A q \in DOMAIN c[k] : Has(d, k, q) /\ d[k][q] = c[k][q]

----------------------------------------------------------------------------
(* C1: for each general query kind, a get of a key the store does not hold makes
   exactly one remote fetch for that key and returns the remote's answer, storing
   the value; every later get of the key in the same process returns that first
   fetched value with no remote fetch; so no key is fetched successfully more
   than once in a process. *)
C1_FetchOnceThenHit ==
    /\ \A k \in Kinds : \A q \in DOMAIN fetched[k] : fetched[k][q].n <= 1
    /\ IsGeneralGet /\ WasMiss =>
         /\ OneFetchReturned
         /\ ret.out.ok => cache_get(cache, Kind, ret.query) = ret.out
    /\ IsGeneralGet /\ WasHit =>
         /\ rpc_calls = <<>>
         /\ ret.out = cache_get(pre.cache, Kind, ret.query)
    /\ IsGeneralGet /\ Has(fetched, Kind, ret.query) =>
         ret.out = Ok(fetched[Kind][ret.query].first)

\* a later get of a fetched key, after another operation in between
C1_Witness ==
    /\ ret.op = "get_blob_data"
    /\ Has(fetched, "blob", ret.query)
    /\ rpc_calls = <<>>
    /\ ret.prev = NoPrev
    /\ nops >= 3

(* C2: a get that misses the store and whose remote fetch fails returns the
   remote's error itself and leaves the store as it was, without an entry for
   the key; the same get made again right after a failure fetches from the
   remote again, and a success is then stored and returned. *)
C2_FailureNotCached ==
    /\ IsGet /\ ~ret.out.ok =>
         /\ WasMiss
         /\ OneFetchReturned
         /\ cache = pre.cache
         /\ ~Has(cache, Kind, ret.query)
    /\ IsGet /\ Failed(ret.prev) =>
         /\ OneFetchReturned
         /\ ret.out.ok => cache_get(cache, Kind, ret.query) = ret.out

\* a get that succeeds right after the same get failed
C2_Witness ==
    /\ ret.op = "get_proof"
    /\ Failed(ret.prev)
    /\ ret.out.ok

(* C3 as stated: with block B cached and a transaction T of hash H in B,
   get_transaction({H, B.number}) returns T without any remote fetch, whether
   or not the store holds an entry for the transaction query. *)
C3_AsStated ==
    TxInCachedBlock =>
        \A i \in 1..Len(CachedBlockTxs) :
            CachedBlockTxs[i].hash = ret.query.tx_hash =>
                ret.out = Ok(CachedBlockTxs[i]) /\ rpc_calls = <<>>

(* C3 amended: with block B cached and a transaction T of hash H in B,
   get_transaction({H, B.number}) makes no remote fetch and returns the entry
   stored under the transaction query when there is one, and T otherwise. *)
C3_CachedBlockResolves ==
    TxInCachedBlock =>
        \A i \in 1..Len(CachedBlockTxs) :
            CachedBlockTxs[i].hash = ret.query.tx_hash =>
                /\ rpc_calls = <<>>
                /\ ret.out = IF Has(pre.cache, "transaction", ret.query)
                             THEN Ok(pre.cache["transaction"][ret.query])
                             ELSE Ok(CachedBlockTxs[i])

\* the transaction is the second of the cached block and no transaction entry exists
C3_Witness ==
    /\ TxInCachedBlock
    /\ Len(CachedBlockTxs) = 2
    /\ CachedBlockTxs[2].hash = ret.query.tx_hash
    /\ ~Has(pre.cache, "transaction", ret.query)
    /\ ret.out = Ok(CachedBlockTxs[2])

(* C4: with block B cached, hash H not in B and no entry for the transaction
   query, get_transaction({H, B.number}) makes exactly one remote call, the
   transaction fetch, and on success stores the transaction under the query;
   a later identical call returns it with no further remote fetch. *)
C4_NotInBlockFetchedOnce ==
    /\ ( /\ TxInCachedBlock
         /\ ret.query.tx_hash \notin HashesOf(CachedBlockTxs)
         /\ ~Has(pre.cache, "transaction", ret.query) ) =>
           /\ OneFetchReturned
           /\ ret.out.ok => cache_get(cache, "transaction", ret.query) = ret.out
    /\ ret.op = "get_transaction" /\ Has(fetched, "transaction", ret.query) =>
           /\ fetched["transaction"][ret.query].n = 1
           /\ ret.out = Ok(fetched["transaction"][ret.query].first)

\* the repeated call: the block is cached, lacks the hash, and the transaction
\* fetched before is returned without a remote call
C4_Witness ==
    /\ TxInCachedBlock
    /\ ret.query.tx_hash \notin HashesOf(CachedBlockTxs)
    /\ Has(fetched, "transaction", ret.query)
    /\ rpc_calls = <<>>

(* C5: no get and no construction changes the file; the file changes only in
   a successful save, which writes the whole store; a provider constructed from
   the file holds nothing that is not in the file, so an entry inserted after
   the last save is not in it. *)
C5_OnlySavePersists ==
    /\ IsGet \/ ret.op = "new" => disk = pre.disk
    /\ disk # pre.disk =>
         /\ ret.op = "save"
         /\ ret.out.ok
    /\ ret.op = "save" /\ ret.out.ok => disk = [state |-> "saved", content |-> cache]
    /\ ret.op = "new" /\ ret.out.ok =>
         \A k \in Kinds : \A q \in DOMAIN cache[k] :
             disk.state = "saved" /\ Has(disk.content, k, q)

\* a fetched value was inserted after the last save: it is in the store, not in the file
C5_Witness ==
    /\ ret.op = "get_full_block"
    /\ WasMiss
    /\ ret.out.ok
    /\ disk.state = "saved"
    /\ ~Has(disk.content, "full_block", ret.query)
    /\ Has(cache, "full_block", ret.query)

(* C6: after a successful save the file loads to exactly the store that was
   saved; a provider constructed from a saved file holds exactly the file's
   entries; and a get of a key the store holds returns the stored value with no
   remote call. *)
C6_SaveReloadRoundTrip ==
    /\ ret.op = "save" /\ ret.out.ok => FileProvider_from_file(disk) = Ok(cache)
    /\ ret.op = "new" /\ ret.out.ok /\ disk.state = "saved" => cache = disk.content
    /\ WasHit =>
         /\ rpc_calls = <<>>
         /\ ret.out = Ok(pre.cache[Kind][ret.query])

\* a hit on an entry this process never fetched: it was saved, then loaded
C6_Witness ==
    /\ ret.op = "get_logs"
    /\ WasHit
    /\ ~Has(fetched, "logs", ret.query)
    /\ disk.state = "saved"
    /\ Has(disk.content, "logs", ret.query)

(* C7: a get makes at most one remote call; a failed remote call is the only
   call of its get, and its error is what the get returns. *)
C7_AtMostOneRemoteCall ==
    IsGet =>
        /\ Len(rpc_calls) <= 1
        /\ \A i \in 1..Len(rpc_calls) : ~rpc_calls[i].out.ok => ret.out = rpc_calls[i].out
        /\ ~ret.out.ok => Len(rpc_calls) = 1

\* get_transaction with a block number whose block is not cached, remote failing
C7_Witness ==
    /\ ret.op = "get_transaction"
    /\ ret.query.block_no # None
    /\ ~Has(pre.cache, "full_block", BlockOf(ret.query))
    /\ Len(rpc_calls) = 1
    /\ ~ret.out.ok

(* C8: a get or a save keeps every entry of the store with its value; a get of
   a key the store holds returns the stored value; the value first fetched for
   a key in this process is the value the store holds for it. *)
C8_StoreOnlyGrows ==
    /\ IsGet \/ ret.op = "save" => Extends(cache, pre.cache)
    /\ WasHit => ret.out = Ok(pre.cache[Kind][ret.query])
    /\ \A k \in Kinds : \A q \in DOMAIN fetched[k] :
           Has(cache, k, q) /\ cache[k][q] = fetched[k][q].first

\* a hit on a stored slot after three other calls
C8_Witness ==
    /\ ret.op = "get_storage"
    /\ WasHit
    /\ Has(fetched, "storage", ret.query)
    /\ nops >= 3

(* C9: new() returns Ok exactly when RpcProvider::new does, and otherwise
   returns its error; when the file cannot be loaded the provider is still
   constructed, with an empty store. *)
C9_ConstructionFailsOnlyWithRemote ==
    ret.op = "new" =>
        LET rpc == RpcProvider_new(ret.query[1], ret.query[2])
        IN /\ ret.out.ok <=> rpc.ok
           /\ ~rpc.ok => ret.out = rpc /\ provider = "failed"
           /\ ret.out.ok => provider = "up"
           /\ ret.out.ok /\ disk.state # "saved" => cache = EmptyCache

\* construction succeeded over a corrupt file
C9_Witness ==
    /\ ret.op = "new"
    /\ ret.out.ok
    /\ disk.state = "corrupt"
    /\ provider = "up"

(* C10: with a remote that answers by a fixed function of the query, whose
   blocks list the transactions it answers by hash, and a file that is missing
   or agrees with the remote, every get returns what the remote answers for
   its query. *)
C10_TransparentDecorator ==
    IsGet => ret.out = remote.answer[Kind][ret.query]

\* a transaction resolved from the cached block, with no remote call
C10_Witness ==
    /\ remote.fixed
    /\ ret.op = "get_transaction"
    /\ ~Has(pre.cache, "transaction", ret.query)
    /\ rpc_calls = <<>>
    /\ ret.out.ok
    /\ ret.out = remote.answer["transaction"][ret.query]

(* C11 as stated: in get_transaction, when the query carries a block number
   and the transaction key is not cached, a block that is not in the cache is
   fetched from the remote and inserted into the full-block cache before any
   remote transaction fetch. *)
C11_AsStated ==
    ( /\ ret.op = "get_transaction"
      /\ ret.query.block_no # None
      /\ ~Has(pre.cache, "transaction", ret.query)
      /\ ~Has(pre.cache, "full_block", BlockOf(ret.query)) ) =>
        /\ rpc_calls # <<>>
        /\ rpc_calls[1].kind = "full_block"
        /\ rpc_calls[1].query = BlockOf(ret.query)
        /\ rpc_calls[1].out.ok =>
             cache_get(cache, "full_block", BlockOf(ret.query)) = rpc_calls[1].out

(* C11 amended: in get_transaction, when the query carries a block number and
   the transaction key is not cached, the block is looked up in the full-block
   cache only: no block is fetched from the remote and the full-block cache is
   left as it was; a cached block's transaction list decides before any remote
   transaction fetch, and with no cached block the one remote call is the
   transaction fetch. *)
C11_BlockFromCacheOnly ==
    ( /\ ret.op = "get_transaction"
      /\ ret.query.block_no # None
      /\ ~Has(pre.cache, "transaction", ret.query) ) =>
        /\ \A i \in 1..Len(rpc_calls) : rpc_calls[i].kind # "full_block"
        /\ cache["full_block"] = pre.cache["full_block"]
        /\ TxInCachedBlock /\ ret.query.tx_hash \in HashesOf(CachedBlockTxs) =>
             rpc_calls = <<>>
        /\ ~TxInCachedBlock => OneFetchReturned

\* the block of the query is not cached: one remote call, the transaction
\* fetch, succeeds and the full-block cache still lacks the block
C11_Witness ==
    /\ ret.op = "get_transaction"
    /\ ret.query.block_no # None
    /\ ~Has(pre.cache, "full_block", BlockOf(ret.query))
    /\ Len(rpc_calls) = 1
    /\ rpc_calls[1].kind = "transaction"
    /\ ret.out.ok
    /\ ~Has(cache, "full_block", BlockOf(ret.query))

\* the cached block of the query lists the hash asked for
ListedInCachedBlock ==
    /\ TxInCachedBlock
    /\ ret.query.tx_hash \in HashesOf(CachedBlockTxs)

\* what the search of the cached block yields for the last operation's query
ScanOfCachedBlock ==
    ScanBlock(pre.cache["full_block"][BlockOf(ret.query)], ret.query.tx_hash)

(* C12: when get_transaction resolves the transaction by scanning the cached
   block's transaction list, it returns that transaction, makes no remote call
   and leaves the store, the transaction cache included, as it was: no entry is
   inserted under the transaction query; a repeat of the same call resolves
   through the scan again and returns the same transaction. *)
C12_ScanLeavesTxCache ==
    ( /\ ret.op = "get_transaction"
      /\ ~Has(pre.cache, "transaction", ret.query)
      /\ ListedInCachedBlock ) =>
        /\ ret.out = ScanOfCachedBlock
        /\ ret.out.ok
        /\ ret.out.val.hash = ret.query.tx_hash
        /\ rpc_calls = <<>>
        /\ cache = pre.cache
        /\ ~Has(cache, "transaction", ret.query)
        /\ ret.prev.ok => ret.out = ret.prev

\* the same get_transaction twice in a row, both resolved by the scan
C12_Witness ==
    /\ ret.op = "get_transaction"
    /\ ListedInCachedBlock
    /\ ret.prev.ok
    /\ ret.prev = ret.out
    /\ rpc_calls = <<>>
    /\ ~Has(cache, "transaction", ret.query)

(* C14: a get of kind K for query q changes at most the store's entry (K, q):
   a hit changes nothing, a miss answered by the remote adds exactly that entry
   with the fetched value, a miss the remote fails changes nothing; every other
   kind and every other key of kind K is as before.  get_partial_block leaves
   the full-block cache alone, and so does get_transaction. *)
C14_GetFrame ==
    IsGet =>
        /\ \A k \in Kinds \ {Kind} : cache[k] = pre.cache[k]
        /\ \A q \in (DOMAIN cache[Kind] \cup DOMAIN pre.cache[Kind]) \ {ret.query} :
             /\ Has(cache, Kind, q) /\ Has(pre.cache, Kind, q)
             /\ cache[Kind][q] = pre.cache[Kind][q]
        /\ WasHit => cache = pre.cache
        /\ WasMiss /\ rpc_calls = <<>> => cache = pre.cache
        /\ WasMiss /\ rpc_calls # <<>> /\ ret.out.ok =>
             cache = cache_insert(pre.cache, Kind, ret.query, ret.out.val)
        /\ WasMiss /\ ~ret.out.ok => cache = pre.cache
        /\ ret.op \in {"get_partial_block", "get_transaction"} =>
             cache["full_block"] = pre.cache["full_block"]

\* get_partial_block fetched a block into a store that held other entries, and
\* the full-block cache does not hold that block
C14_Witness ==
    /\ ret.op = "get_partial_block"
    /\ Len(rpc_calls) = 1
    /\ ret.out.ok
    /\ pre.cache # EmptyCache
    /\ cache = cache_insert(pre.cache, "partial_block", ret.query, ret.out.val)
    /\ ~Has(cache, "full_block", ret.query)

\* the transaction cache holds the hash asked for under another query, one
\* scoped to a block number
CachedUnderOtherBlock ==
    \E q \in DOMAIN pre.cache["transaction"] :
        /\ q.tx_hash = ret.query.tx_hash
        /\ q.block_no # None
        /\ q.block_no # ret.query.block_no

(* C15: the transaction cache is keyed by the whole query, hash and optional
   block number: with hash H cached under a query scoped to block number b, a
   get_transaction for H with no block number, or with another block number
   whose block is not cached, misses the cache and makes one remote
   transaction fetch, whose answer it returns. *)
C15_KeyedByWholeQuery ==
    ( /\ ret.op = "get_transaction"
      /\ CachedUnderOtherBlock
      /\ ~Has(pre.cache, "transaction", ret.query)
      /\ (ret.query.block_no = None \/ ~Has(pre.cache, "full_block", BlockOf(ret.query))) ) =>
        /\ OneFetchReturned
        /\ rpc_calls[1].kind = "transaction"

\* H is cached under a block-scoped query and asked for again with no block
\* number: the remote answers with another transaction than the cached one
C15_Witness ==
    /\ ret.op = "get_transaction"
    /\ ret.query.block_no = None
    /\ CachedUnderOtherBlock
    /\ Len(rpc_calls) = 1
    /\ ret.out.ok
    /\ \E q \in DOMAIN pre.cache["transaction"] :
         q.tx_hash = ret.query.tx_hash /\ pre.cache["transaction"][q] # ret.out.val

(* C16: get_transaction resolves in the order transaction cache, cached block,
   remote: a cached transaction entry is returned with no remote call even when
   the cached block of the query lists the hash; without an entry, a cached
   block that lists the hash yields the transaction with no remote call; the
   remote transaction fetch happens only when neither produced it. *)
C16_ResolutionOrder ==
    ret.op = "get_transaction" =>
        /\ Has(pre.cache, "transaction", ret.query) =>
             /\ rpc_calls = <<>>
             /\ ret.out = Ok(pre.cache["transaction"][ret.query])
        /\ ~Has(pre.cache, "transaction", ret.query) /\ ListedInCachedBlock =>
             /\ rpc_calls = <<>>
             /\ ret.out = ScanOfCachedBlock
        /\ rpc_calls # <<>> =>
             /\ ~Has(pre.cache, "transaction", ret.query)
             /\ ~ListedInCachedBlock
             /\ OneFetchReturned

\* a transaction entry and a cached block that lists the hash with another
\* transaction: the entry is what is returned
C16_Witness ==
    /\ ret.op = "get_transaction"
    /\ Has(pre.cache, "transaction", ret.query)
    /\ ListedInCachedBlock
    /\ ScanOfCachedBlock.val # pre.cache["transaction"][ret.query]
    /\ ret.out = Ok(pre.cache["transaction"][ret.query])

\* the last operation's lookup of its own key failed: the key was absent or
\* its stored value could not be read
LookupFailed == IsGet /\ ~cache_get(pre.cache, Kind, ret.query).ok

(* C13 as stated: for every query kind, a failed cache lookup always leads to a
   remote fetch whose outcome is the result of the call. *)
C13_AsStated == LookupFailed => OneFetchReturned

(* C13 amended: no get returns a cache-side error, whether the key was absent
   or its stored value unreadable: a failed call returns the remote's error.
   For every general query kind a failed lookup leads to one remote fetch whose
   outcome is the result.  For get_transaction a failed lookup of the
   transaction entry leads to the search of the cached block, a block whose
   lookup fails counting as no block, and to one remote fetch whose outcome is
   the result when the search does not yield the transaction. *)
C13_UniformFallback ==
    /\ IsGet /\ ~ret.out.ok => ret.out.err \in RemoteErrors
    /\ IsGeneralGet /\ LookupFailed => OneFetchReturned
    /\ ret.op = "get_transaction" /\ LookupFailed =>
         IF SearchCachedBlock(pre.cache, ret.query).ok
         THEN rpc_calls = <<>> /\ ret.out = SearchCachedBlock(pre.cache, ret.query)
         ELSE OneFetchReturned

\* a get of a general kind whose key is stored with an unreadable value: the
\* remote is asked and its answer returned
C13_Witness ==
    /\ IsGeneralGet
    /\ Has(pre.cache, Kind, ret.query)
    /\ LookupFailed
    /\ OneFetchReturned
    /\ ret.out.ok

====
